---- MODULE Spec2Model ----
(***************************************************************************)
(* The AF_UNIX transport of the vhost-user library                         *)
(* (lib/librte_vhost/trans_af_unix.c): one socket endpoint, its            *)
(* connection list, the process-wide reconnect list, the descriptor table  *)
(* of the process, the device registry and the fd-set dispatcher.          *)
(*                                                                         *)
(* Threads: "app" calls socket_init / socket_start / socket_cleanup,       *)
(* "disp" is the dispatcher thread running the accept and read callbacks,  *)
(* "reconn" is vhost_user_client_reconnect.  "w1" and "w2" are extra       *)
(* callers of vhost_user_add_connection, used only by SpecConc.            *)
(*                                                                         *)
(* The owner's notify_ops is taken to supply both new_connection and       *)
(* destroy_connection (the guarded calls at lines 179, 199 and 252 are     *)
(* made).                                                                  *)
(***************************************************************************)
EXTENDS Integers, Sequences, FiniteSets, TLC

\* Bounds of the model.
MaxFd == 3          \* descriptor numbers 0 .. MaxFd-1 exist in the process
MaxDev == 2         \* device ids 1 .. MaxDev can be handed out
MaxFdsArg == 3      \* read_fd_message is called with max_fds in 0 .. MaxFdsArg
MaxSent == 4        \* send_fd_message attaches 0 .. MaxSent descriptors
MaxBytes == 2       \* message and buffer lengths are 1 .. MaxBytes

Fds == 0 .. (MaxFd - 1)
ConnIds == 1 .. MaxDev
NoFd == 0 - 1
\* The slot of the listening descriptor in the fd set; slot c > 0 is the
\* registration whose callback data is connection record c.
ListenSlot == 0
Slots == {ListenSlot} \cup ConnIds
NoSlot == 0 - 1
Threads == {"app", "reconn", "disp", "w1", "w2"}
Workers == {"w1", "w2"}

VARIABLES
    is_server,      \* vsocket->is_server
    reconnect,      \* vsocket->reconnect
    fs,             \* the file at vsocket->path: "none", "foreign", "own", "foreign_deleted"
    reachable,      \* the client's target: "never" (not yet listening), "up", "down"
    socket_fd,      \* af_vsocket->socket_fd
    conn_list,      \* af_vsocket->conn_list, a sequence of connection records
    conn_mutex,     \* af_vsocket->conn_mutex: "free", the holder, or "destroyed"
    reconn_list,    \* reconn_list.head, a sequence of the entries' descriptors
    reconn_mutex,   \* reconn_list.mutex: "free" or the holder
    rt_i,           \* the reconnect thread's position in its sweep
    fds,            \* the descriptors open in the process
    fdset,          \* vhost_user.fdset: slot -> registered descriptor, NoFd when empty
    busy,           \* the slot whose callback is running, NoSlot when none
    rm,             \* *remove of the running callback
    cst,            \* connection record: "none", "live", "freed"
    connfd,         \* conn->connfd
    dev,            \* device of an id: "none", "alive", "destroyed"
    nDestroy,       \* vhost_destroy_device calls per device id
    nDestroyConn,   \* destroy_connection callbacks per device id
    nextvid,        \* next device id vhost_new_device hands out
    pc,             \* each thread's position
    lfd,            \* each thread's local fd
    lconn,          \* each thread's local conn
    crashed,        \* the process was killed by undefined behaviour
    ub,             \* an operation with undefined behaviour was executed
    badclose,       \* close() was called on a descriptor that is not open
    closedReg,      \* per record: who closed connfd while it was still registered
    parked,         \* reconnect entries ever inserted
    retried,        \* af_unix_socket_cleanup went back to "again" at least once
    resolved,       \* reconnect entries ever taken out, by kind, and connections made of them
    ep_owns,        \* the endpoint holds the descriptor in socket_fd as its own
    ch              \* one use of the fd-passing channel: a send and the receive of it

cfgv == <<is_server, reconnect>>
envv == <<fs, reachable>>
epv == <<socket_fd, conn_list, conn_mutex>>
rcv == <<reconn_list, reconn_mutex, rt_i>>
fdv == <<fds, fdset, busy, rm>>
devv == <<cst, connfd, dev, nDestroy, nDestroyConn, nextvid>>
thv == <<pc, lfd, lconn>>
histv == <<crashed, ub, badclose, closedReg, parked, retried, resolved, ep_owns>>
hist0 == <<crashed, ub, badclose, closedReg, parked, retried, resolved>>
vars == <<cfgv, envv, epv, rcv, fdv, devv, thv, histv, ch>>

----------------------------------------------------------------------------
\* Helpers

\* socket() and accept() return the lowest descriptor number not in use.
LowestFree(open) == CHOOSE n \in Fds \ open : \A m \in Fds \ open : n <= m

HasFree(open) == Fds \ open # {}

Cap2(n) == IF n >= 2 THEN 2 ELSE n + 1

\* TAILQ_REMOVE of a member.
ListRemove(list, c) == SelectSeq(list, LAMBDA x : x # c)

InList(list, c) == \E i \in 1 .. Len(list) : list[i] = c

\* A tail insertion that loses the members already linked.
ListInsertTail_Lost(list, c) == <<c>>

\* TAILQ_INSERT_TAIL.
ListInsertTail(list, c) == Append(list, c)

\* Removal of the element at position i of a sequence.
RemoveAt(list, i) == [j \in 1 .. (Len(list) - 1) |-> IF j < i THEN list[j] ELSE list[j + 1]]

\* Where a thread continues when vhost_user_add_connection returns.
AddRet(t) == CASE t = "reconn" -> "rt_remove"
               [] t = "app" -> "started"
               [] t = "disp" -> "cb_ret"
               [] OTHER -> "idle"

\* Where a thread continues when vhost_user_start_client returns ret.
StartRet(t, ret) == IF t = "app"
                    THEN (IF ret = 0 THEN "started" ELSE "start_failed")
                    ELSE "cb_ret"

\* The process is killed: nothing runs any more.
Crash ==
    /\ crashed' = TRUE
    /\ ub' = TRUE
    /\ pc' = [t \in Threads |-> "dead"]
    /\ UNCHANGED <<ch, cfgv, envv, epv, rcv, fdv, devv, lfd, lconn, badclose, closedReg, parked, retried, resolved, ep_owns>>

TypeOK ==
    /\ is_server \in BOOLEAN /\ reconnect \in BOOLEAN
    /\ fs \in {"none", "foreign", "own", "foreign_deleted"}
    /\ reachable \in {"never", "up", "down"}
    /\ socket_fd \in Fds \cup {NoFd}
    /\ conn_list \in Seq(ConnIds)
    /\ conn_mutex \in Threads \cup {"free", "destroyed"}
    /\ reconn_list \in Seq(Fds)
    /\ reconn_mutex \in Threads \cup {"free"}
    /\ fds \subseteq Fds
    /\ fdset \in [Slots -> Fds \cup {NoFd}]
    /\ busy \in Slots \cup {NoSlot}
    /\ rm \in BOOLEAN
    /\ cst \in [ConnIds -> {"none", "live", "freed"}]
    /\ connfd \in [ConnIds -> Fds \cup {NoFd}]
    /\ dev \in [ConnIds -> {"none", "alive", "destroyed"}]
    /\ nDestroy \in [ConnIds -> 0 .. 2]
    /\ nDestroyConn \in [ConnIds -> 0 .. 2]
    /\ nextvid \in 1 .. (MaxDev + 1)
    /\ pc \in [Threads -> STRING]
    /\ lfd \in [Threads -> Fds \cup {NoFd}]
    /\ lconn \in [Threads -> ConnIds \cup {0}]
    /\ crashed \in BOOLEAN /\ badclose \in BOOLEAN /\ ub \in BOOLEAN
    /\ ep_owns \in BOOLEAN /\ retried \in BOOLEAN
    /\ ch.phase \in {"off", "idle", "sent", "done", "dead"}
    /\ ch.kind \in {"stream", "dgram"}
    /\ ch.max_fds \in 0 .. MaxFdsArg /\ ch.buflen \in 1 .. MaxBytes
    /\ Len(ch.arr) = ch.max_fds /\ Len(ch.arr0) = ch.max_fds
    /\ ch.qlen \in 0 .. MaxBytes /\ ch.qfds \in 0 .. MaxSent

----------------------------------------------------------------------------
\* The fd-passing channel: read_fd_message and send_fd_message.

\* sizeof(int)
SizeofInt == 4

\* sizeof(struct cmsghdr) and the alignment of control messages: 16 and 8
\* where size_t has 8 bytes, 12 and 4 where it has 4.
Aligns == {4, 8}
CmsgHdr(a) == IF a = 8 THEN 16 ELSE 12
CMSG_ALIGN(len, a) == ((len + a - 1) \div a) * a
CMSG_SPACE(len, a) == CMSG_ALIGN(len, a) + CMSG_ALIGN(CmsgHdr(a), a)
CMSG_LEN(len, a) == CMSG_ALIGN(CmsgHdr(a), a) + len

Min2(a, b) == IF a <= b THEN a ELSE b

\* What the caller's array holds before the call, the sentinel of an unused
\* slot, and the i-th descriptor the kernel installs for the receiver.
Stale == 0 - 7
Absent == 0 - 1
RecvFd(i) == 100 + i

\* The channel at rest.
ChIdle ==
    [phase |-> "off", kind |-> "stream", align |-> 8, max_fds |-> 0, buflen |-> 1,
     arr0 |-> <<>>, arr |-> <<>>, qlen |-> 0, qfds |-> 0,
     sret |-> 0, ret |-> 0, fd_num |-> Stale, overrun |-> FALSE]

\* send_fd_message(sockfd, buf, buflen = len, fds, fd_num = n): the control
\* buffer carries one SCM_RIGHTS record of n descriptors when n > 0; sendmsg
\* succeeds (ok) or fails.  What is queued for the receiver, and the return.
send_fd_message(len, n, ok) ==
    IF ok THEN [sret |-> len, qlen |-> len, qfds |-> IF n > 0 THEN n ELSE 0]
          ELSE [sret |-> 0 - 1, qlen |-> 0, qfds |-> 0]

\* The number of descriptors a control buffer of controllen bytes takes.
scm_max_fds(controllen, a) ==
    IF controllen <= CmsgHdr(a) THEN 0 ELSE (controllen - CmsgHdr(a)) \div SizeofInt

\* recvmsg(sockfd, &msgh, 0) on channel c with a control buffer of
\* controllen bytes: the outcomes.  It may fail; it returns 0 when nothing is
\* queued and the peer is gone; else it returns the bytes that fit, with
\* MSG_TRUNC when a datagram did not fit and MSG_CTRUNC when descriptors did
\* not fit, and cmsg_len tells how many descriptors were installed.
recvmsg(c, controllen) ==
    {[ret |-> 0 - 1, trunc |-> FALSE, ctrunc |-> FALSE, cmsg_len |-> 0]}
    \cup
    (IF c.qlen = 0
     THEN {[ret |-> 0, trunc |-> FALSE, ctrunc |-> FALSE, cmsg_len |-> 0]}
     ELSE LET fdmax == scm_max_fds(controllen, c.align)
              n == Min2(c.qfds, fdmax)
          IN {[ret |-> Min2(c.qlen, c.buflen),
               trunc |-> (c.kind = "dgram" /\ c.qlen > c.buflen),
               ctrunc |-> (c.qfds > fdmax),
               cmsg_len |-> IF n > 0 THEN CMSG_LEN(n * SizeofInt, c.align) ELSE 0]})

\* A read_fd_message without the closing loop of lines 91-93.
read_fd_message_NoFill(c, o) ==
    IF o.ret <= 0
    THEN [c EXCEPT !.phase = "done", !.ret = o.ret, !.fd_num = 0]
    ELSE IF o.trunc \/ o.ctrunc
    THEN [c EXCEPT !.phase = "done", !.ret = 0 - 1, !.fd_num = 0]
    ELSE LET got_fds == IF o.cmsg_len = 0 THEN 0
                        ELSE (o.cmsg_len - CMSG_LEN(0, c.align)) \div SizeofInt
         IN [c EXCEPT !.phase = "done", !.ret = o.ret, !.fd_num = got_fds,
                      !.arr = [i \in 1 .. c.max_fds |->
                                  IF i <= got_fds THEN RecvFd(i) ELSE c.arr[i]],
                      !.overrun = (got_fds > c.max_fds)]

\* read_fd_message(sockfd, buf, buflen, fds, max_fds, fd_num) after recvmsg
\* gave outcome o: the channel with the caller's array, *fd_num and the
\* return value.  got_fds descriptors are copied whatever max_fds is.
read_fd_message(c, o) ==
    IF o.ret <= 0
    THEN [c EXCEPT !.phase = "done", !.ret = o.ret, !.fd_num = 0]
    ELSE IF o.trunc \/ o.ctrunc
    THEN [c EXCEPT !.phase = "done", !.ret = 0 - 1, !.fd_num = 0]
    ELSE LET got_fds == IF o.cmsg_len = 0 THEN 0
                        ELSE (o.cmsg_len - CMSG_LEN(0, c.align)) \div SizeofInt
         IN [c EXCEPT !.phase = "done", !.ret = o.ret, !.fd_num = got_fds,
                      !.arr = [i \in 1 .. c.max_fds |->
                                   IF i <= got_fds THEN RecvFd(i) ELSE Absent],
                      !.overrun = (got_fds > c.max_fds)]

----------------------------------------------------------------------------
\* The state after the endpoint was configured and before socket_init.

InitCommon ==
    /\ socket_fd = NoFd
    /\ conn_list = <<>>
    /\ conn_mutex = "free"
    /\ reconn_list = <<>>
    /\ reconn_mutex = "free"
    /\ rt_i = 1
    /\ fds = {}
    /\ fdset = [s \in Slots |-> NoFd]
    /\ busy = NoSlot
    /\ rm = FALSE
    /\ cst = [c \in ConnIds |-> "none"]
    /\ connfd = [c \in ConnIds |-> NoFd]
    /\ dev = [c \in ConnIds |-> "none"]
    /\ nDestroy = [c \in ConnIds |-> 0]
    /\ nDestroyConn = [c \in ConnIds |-> 0]
    /\ nextvid = 1
    /\ lfd = [t \in Threads |-> NoFd]
    /\ lconn = [t \in Threads |-> 0]
    /\ crashed = FALSE
    /\ ub = FALSE
    /\ badclose = FALSE
    /\ closedReg = [c \in ConnIds |-> "no"]
    /\ parked = 0
    /\ retried = FALSE
    /\ resolved = [k \in {"promoted", "fatal", "cancelled", "made"} |-> 0]
    /\ ep_owns = FALSE

Init ==
    /\ InitCommon
    /\ ch = ChIdle
    /\ is_server \in BOOLEAN
    /\ reconnect \in (IF is_server THEN {FALSE} ELSE BOOLEAN)
    /\ fs \in (IF is_server THEN {"none", "foreign"} ELSE {"none"})
    /\ reachable \in (IF is_server THEN {"never"} ELSE {"never", "up"})
    /\ pc = [t \in Threads |-> CASE t = "app" -> "uninit"
                                 [] t = "disp" -> "poll"
                                 [] t = "reconn" -> "rt_sleep"
                                 [] OTHER -> "off"]

----------------------------------------------------------------------------
\* create_unix_socket: socket() (and, for a client, fcntl O_NONBLOCK); on
\* success the new descriptor is stored in socket_fd.  The set of outcomes
\* <<ret, open descriptors, socket_fd>>.
create_unix_socket ==
    {<<0 - 1, fds, socket_fd>>} \cup
    (IF HasFree(fds)
     THEN {<<0, fds \cup {LowestFree(fds)}, LowestFree(fds)>>}
     ELSE {})

\* af_unix_socket_init
SocketInit ==
    /\ pc["app"] = "uninit"
    /\ \E r \in create_unix_socket :
        /\ fds' = r[2]
        /\ socket_fd' = r[3]
        /\ ep_owns' = (r[1] = 0)
        /\ pc' = [pc EXCEPT !["app"] = IF r[1] = 0 THEN "inited" ELSE "init_failed"]
    /\ UNCHANGED <<ch, cfgv, envv, conn_list, conn_mutex, rcv, fdset, busy, rm, devv, lfd, lconn, hist0>>

----------------------------------------------------------------------------
\* close(n): the descriptor leaves the table; closing a number that is not
\* open is recorded.
CloseFd(n) ==
    /\ fds' = fds \ {n}
    /\ badclose' = (badclose \/ n \notin fds)

\* vhost_destroy_device(c)
DestroyDevice(c) ==
    /\ dev' = [dev EXCEPT ![c] = "destroyed"]
    /\ nDestroy' = [nDestroy EXCEPT ![c] = Cap2(@)]

\* A thread leaves the function it is in and continues at label.
Return(t, label) ==
    /\ pc' = [pc EXCEPT ![t] = label]
    /\ lfd' = [lfd EXCEPT ![t] = NoFd]
    /\ lconn' = [lconn EXCEPT ![t] = 0]

\* vhost_user_start_server: bind, listen, fdset_add of the listening
\* descriptor; every failure closes the descriptor and returns -1.
\* bind fails when the path exists, and may fail for other reasons.
StartServer ==
    /\ pc["app"] = "inited"
    /\ is_server
    /\ \/ \* bind fails (320-326, 344-346)
          /\ CloseFd(socket_fd)
          /\ ep_owns' = FALSE
          /\ pc' = [pc EXCEPT !["app"] = "start_failed"]
          /\ UNCHANGED <<fs, fdset>>
       \/ \* bind succeeds, listen or fdset_add fails (329-340, 344-346)
          /\ fs = "none"
          /\ fs' = "own"
          /\ CloseFd(socket_fd)
          /\ ep_owns' = FALSE
          /\ pc' = [pc EXCEPT !["app"] = "start_failed"]
          /\ UNCHANGED fdset
       \/ \* success (320-342)
          /\ fs = "none"
          /\ fs' = "own"
          /\ fdset' = [fdset EXCEPT ![ListenSlot] = socket_fd]
          /\ pc' = [pc EXCEPT !["app"] = "started"]
          /\ UNCHANGED <<fds, badclose, ep_owns>>
    /\ UNCHANGED <<ch, cfgv, reachable, epv, rcv, busy, rm, devv, lfd, lconn,
                   crashed, ub, closedReg, parked, retried, resolved>>

\* vhost_user_server_new_connection: the dispatcher runs the callback of the
\* listening descriptor; accept() returns the lowest free descriptor, or fails
\* (and the callback returns) when the table is full.
Accept ==
    /\ pc["disp"] = "poll"
    /\ fdset[ListenSlot] # NoFd
    /\ IF HasFree(fds)
       THEN /\ fds' = fds \cup {LowestFree(fds)}
            /\ lfd' = [lfd EXCEPT !["disp"] = LowestFree(fds)]
            /\ busy' = ListenSlot
            /\ pc' = [pc EXCEPT !["disp"] = "add_new"]
       ELSE UNCHANGED <<fds, lfd, busy, pc>>
    /\ UNCHANGED <<ch, cfgv, envv, epv, rcv, fdset, rm, devv, lconn, histv>>

----------------------------------------------------------------------------
\* vhost_user_add_connection(fd, vsocket), thread t, fd in lfd[t].

\* The error path without its close(fd).
AddErr_NoClose(t) ==
    /\ UNCHANGED <<fds, badclose>>
    /\ Return(t, AddRet(t))

\* err: free(conn); close(fd)  (lines 214-216, and 158 for the failed malloc)
AddErr(t) ==
    /\ CloseFd(lfd[t])
    /\ Return(t, AddRet(t))

\* err_cleanup: vhost_destroy_device(vid), then err  (lines 212-216)
AddErrCleanup(t, c) ==
    /\ DestroyDevice(c)
    /\ cst' = [cst EXCEPT ![c] = "freed"]
    /\ AddErr(t)

\* Lines 156-187: malloc, vhost_new_device, the device's configuration and
\* the owner's new_connection callback.
AddNew(t) ==
    /\ pc[t] = "add_new"
    /\ \/ \* malloc fails, or vhost_new_device fails
          /\ AddErr(t)
          /\ UNCHANGED devv
       \/ \* new_connection fails on the new device
          /\ nextvid <= MaxDev
          /\ nextvid' = nextvid + 1
          /\ AddErrCleanup(t, nextvid)
          /\ UNCHANGED <<connfd, nDestroyConn>>
       \/ \* success
          /\ nextvid <= MaxDev
          /\ nextvid' = nextvid + 1
          /\ dev' = [dev EXCEPT ![nextvid] = "alive"]
          /\ cst' = [cst EXCEPT ![nextvid] = "live"]
          /\ lconn' = [lconn EXCEPT ![t] = nextvid]
          /\ pc' = [pc EXCEPT ![t] = "add_reg"]
          /\ UNCHANGED <<fds, badclose, lfd, connfd, nDestroy, nDestroyConn>>
    /\ UNCHANGED <<ch, cfgv, envv, epv, rcv, fdset, busy, rm, ep_owns, crashed, ub, closedReg, parked, retried, resolved>>

\* Lines 189-203: the record is filled in and the descriptor is registered
\* with the dispatcher; when fdset_add fails, destroy_connection is called
\* and the err_cleanup path is taken.
AddReg(t) ==
    /\ pc[t] = "add_reg"
    /\ connfd' = [connfd EXCEPT ![lconn[t]] = lfd[t]]
    /\ \/ \* fdset_add fails
          /\ nDestroyConn' = [nDestroyConn EXCEPT ![lconn[t]] = Cap2(@)]
          /\ AddErrCleanup(t, lconn[t])
          /\ UNCHANGED fdset
       \/ \* registered
          /\ fdset' = [fdset EXCEPT ![lconn[t]] = lfd[t]]
          /\ pc' = [pc EXCEPT ![t] = "add_lock"]
          /\ UNCHANGED <<fds, badclose, lfd, lconn, cst, dev, nDestroy, nDestroyConn>>
    /\ UNCHANGED <<ch, cfgv, envv, epv, rcv, busy, rm, nextvid, ep_owns, crashed, ub, closedReg, parked, retried, resolved>>

\* pthread_mutex_lock(&af_vsocket->conn_mutex) by thread t, continuing at
\* label.  Locking a destroyed mutex is undefined: the call returns without
\* excluding anyone, or the process dies.
LockConn(t, label) ==
    \/ /\ conn_mutex = "free"
       /\ conn_mutex' = t
       /\ pc' = [pc EXCEPT ![t] = label]
       /\ UNCHANGED <<ch, cfgv, envv, socket_fd, conn_list, rcv, fdv, devv, lfd, lconn, histv>>
    \/ /\ conn_mutex = "destroyed"
       /\ \/ /\ pc' = [pc EXCEPT ![t] = label]
             /\ ub' = TRUE
             /\ UNCHANGED <<ch, cfgv, envv, epv, rcv, fdv, devv, lfd, lconn,
                            ep_owns, crashed, badclose, closedReg, parked, retried, resolved>>
          \/ Crash

\* A missing unlock.
UnlockConn_Missing == conn_mutex' = conn_mutex

\* pthread_mutex_unlock(&af_vsocket->conn_mutex)
UnlockConn == conn_mutex' = IF conn_mutex = "destroyed" THEN "destroyed" ELSE "free"

\* Line 205
AddLock(t) ==
    /\ pc[t] = "add_lock"
    /\ LockConn(t, "add_ins")

\* Lines 206-210: TAILQ_INSERT_TAIL, unlock, fdset_pipe_notify, return.
\* Linking a record that was freed meanwhile is undefined: the write goes
\* through, or the process dies.
AddInsert(t) ==
    /\ pc[t] = "add_ins"
    /\ \/ /\ conn_list' = ListInsertTail(conn_list, lconn[t])
          /\ UnlockConn
          /\ Return(t, AddRet(t))
          /\ ub' = (ub \/ cst[lconn[t]] = "freed")
          /\ resolved' = IF t = "reconn" THEN [resolved EXCEPT !["made"] = @ + 1]
                                         ELSE resolved
          /\ UNCHANGED <<ch, cfgv, envv, socket_fd, rcv, fdv, devv,
                         ep_owns, crashed, badclose, closedReg, parked, retried>>
       \/ /\ cst[lconn[t]] = "freed"
          /\ Crash

----------------------------------------------------------------------------
\* vhost_user_read_cb(connfd, conn, remove), run by the dispatcher.

\* The dispatcher finds the descriptor of slot c readable, marks the slot
\* busy and calls its callback.
DispatchRead(c) ==
    /\ pc["disp"] = "poll"
    /\ fdset[c] # NoFd
    /\ busy' = c
    /\ lconn' = [lconn EXCEPT !["disp"] = c]
    /\ lfd' = [lfd EXCEPT !["disp"] = fdset[c]]
    /\ pc' = [pc EXCEPT !["disp"] = "rcb_run"]
    /\ UNCHANGED <<ch, cfgv, envv, epv, rcv, fds, fdset, rm, devv, histv>>

\* Lines 246-255, after vhost_user_msg_handler failed: close(connfd),
\* *remove = 1, destroy_connection, vhost_destroy_device.
ReadFailTeardown(c) ==
    /\ CloseFd(lfd["disp"])
    /\ rm' = TRUE
    /\ nDestroyConn' = [nDestroyConn EXCEPT ![c] = Cap2(@)]
    /\ DestroyDevice(c)
    /\ closedReg' = [closedReg EXCEPT ![c] = IF fdset[c] # NoFd THEN "readcb" ELSE @]

\* Lines 242-255: one round of the protocol handler; on success the callback
\* returns, on failure the connection is torn down.
RcbHandle ==
    /\ pc["disp"] = "rcb_run"
    /\ \/ /\ pc' = [pc EXCEPT !["disp"] = "cb_ret"]
          /\ UNCHANGED <<fds, rm, nDestroyConn, dev, nDestroy, badclose, closedReg>>
       \/ /\ ReadFailTeardown(lconn["disp"])
          /\ pc' = [pc EXCEPT !["disp"] = "rcb_lock"]
    /\ UNCHANGED <<ch, cfgv, envv, epv, rcv, fdset, busy, cst, connfd, nextvid, lfd, lconn,
                   ep_owns, crashed, ub, parked, retried, resolved>>

\* Line 257
RcbLock ==
    /\ pc["disp"] = "rcb_lock"
    /\ LockConn("disp", "rcb_remove")

\* TAILQ_REMOVE(&conn_list, conn, next) at line 258: the lists that can
\* result.  Unlinking a record that was never linked is undefined: the list
\* is left as it was or loses its members (or the process dies).
ReadCbUnlink(list, c) ==
    IF InList(list, c) THEN {ListRemove(list, c)} ELSE {list, <<>>}

\* Lines 258-263: TAILQ_REMOVE, unlock, free(conn), and the test of
\* vsocket->reconnect.
RcbRemove ==
    /\ pc["disp"] = "rcb_remove"
    /\ \/ /\ conn_list' \in ReadCbUnlink(conn_list, lconn["disp"])
          /\ UnlockConn
          /\ cst' = [cst EXCEPT ![lconn["disp"]] = "freed"]
          /\ pc' = [pc EXCEPT !["disp"] = IF reconnect THEN "rcb_create" ELSE "cb_ret"]
          /\ ub' = (ub \/ ~InList(conn_list, lconn["disp"]))
          /\ UNCHANGED <<ch, cfgv, envv, socket_fd, rcv, fdv, connfd, dev, nDestroy,
                         nDestroyConn, nextvid, lfd, lconn,
                         ep_owns, crashed, badclose, closedReg, parked, retried, resolved>>
       \/ /\ ~InList(conn_list, lconn["disp"])
          /\ Crash

\* Line 264: create_unix_socket(vsocket); its return value is not looked at.
RcbCreate ==
    /\ pc["disp"] = "rcb_create"
    /\ \E r \in create_unix_socket :
        /\ fds' = r[2]
        /\ socket_fd' = r[3]
        /\ ep_owns' = (r[1] = 0 \/ ep_owns)
    /\ pc' = [pc EXCEPT !["disp"] = "sc_connect"]
    /\ UNCHANGED <<ch, cfgv, envv, conn_list, conn_mutex, rcv, fdset, busy, rm, devv, lfd, lconn, hist0>>

\* The callback returned: the dispatcher clears the busy mark and, when
\* *remove was set, takes the slot out of the fd set.
CbRet ==
    /\ pc["disp"] = "cb_ret"
    /\ fdset' = IF rm THEN [fdset EXCEPT ![busy] = NoFd] ELSE fdset
    /\ busy' = NoSlot
    /\ rm' = FALSE
    /\ Return("disp", "poll")
    /\ UNCHANGED <<ch, cfgv, envv, epv, rcv, fds, devv, histv>>

\* A connect that reports success whatever the state of the target.
vhost_user_connect_nonblock_Blind(f) == {0}

----------------------------------------------------------------------------
\* vhost_user_connect_nonblock(fd, ...): the possible return values.
\* connect() fails on a closed descriptor and while the target does not
\* listen (-1); after a successful connect the fcntl calls may fail (-2).
vhost_user_connect_nonblock(f) ==
    IF f \notin fds THEN {0 - 1}
    ELSE IF reachable = "up" THEN {0, 0 - 2}
    ELSE {0 - 1}

\* vhost_user_start_client, lines 465-495, by the application thread (start)
\* or by the dispatcher thread (line 265).
StartClient(t) ==
    /\ \/ t = "app" /\ pc[t] = "inited" /\ ~is_server
       \/ t = "disp" /\ pc[t] = "sc_connect"
    /\ \E ret \in vhost_user_connect_nonblock(socket_fd) :
        \/ \* connected: vhost_user_add_connection(fd, vsocket)
           /\ ret = 0
           /\ lfd' = [lfd EXCEPT ![t] = socket_fd]
           /\ pc' = [pc EXCEPT ![t] = "add_new"]
           /\ UNCHANGED <<fds, badclose, lconn>>
        \/ \* fatal, or no reconnection, or malloc of the entry fails
           /\ ret # 0
           /\ CloseFd(socket_fd)
           /\ Return(t, StartRet(t, 0 - 1))
        \/ \* an entry is allocated for the reconnect list
           /\ ret = 0 - 1
           /\ reconnect
           /\ lfd' = [lfd EXCEPT ![t] = socket_fd]
           /\ pc' = [pc EXCEPT ![t] = "sc_lock"]
           /\ UNCHANGED <<fds, badclose, lconn>>
    /\ ep_owns' = FALSE
    /\ UNCHANGED <<ch, cfgv, envv, epv, rcv, fdset, busy, rm, devv, crashed, ub, closedReg, parked, retried, resolved>>

\* Line 496
ScLock(t) ==
    /\ pc[t] = "sc_lock"
    /\ reconn_mutex = "free"
    /\ reconn_mutex' = t
    /\ pc' = [pc EXCEPT ![t] = "sc_ins"]
    /\ UNCHANGED <<ch, cfgv, envv, epv, reconn_list, rt_i, fdv, devv, lfd, lconn, histv>>

\* Lines 497-500
ScInsert(t) ==
    /\ pc[t] = "sc_ins"
    /\ reconn_list' = Append(reconn_list, lfd[t])
    /\ reconn_mutex' = "free"
    /\ parked' = parked + 1
    /\ UNCHANGED retried
    /\ Return(t, StartRet(t, 0))
    /\ UNCHANGED <<ch, cfgv, envv, epv, rt_i, fdv, devv, ep_owns, crashed, ub, badclose, closedReg, resolved>>

----------------------------------------------------------------------------
\* vhost_user_client_reconnect, the reconnect thread.

\* Line 396: a sweep starts.  (A sweep of an empty list changes nothing.)
RtLock ==
    /\ pc["reconn"] = "rt_sleep"
    /\ ~is_server /\ reconnect
    /\ reconn_list # <<>>
    /\ reconn_mutex = "free"
    /\ reconn_mutex' = "reconn"
    /\ rt_i' = 1
    /\ pc' = [pc EXCEPT !["reconn"] = "rt_iter"]
    /\ UNCHANGED <<ch, cfgv, envv, epv, reconn_list, fdv, devv, lfd, lconn, histv>>

\* A sweep whose fatal branch closes the descriptor and keeps the entry.
RtIter_FatalKeepsEntry ==
    /\ pc["reconn"] = "rt_iter"
    /\ IF rt_i > Len(reconn_list)
       THEN /\ reconn_mutex' = "free"
            /\ rt_i' = 1
            /\ pc' = [pc EXCEPT !["reconn"] = "rt_sleep"]
            /\ UNCHANGED <<reconn_list, fds, badclose, lfd, resolved>>
       ELSE \E ret \in vhost_user_connect_nonblock(reconn_list[rt_i]) :
            \/ \* -2: close, remove_fd
               /\ ret = 0 - 2
               /\ CloseFd(reconn_list[rt_i])
               /\ rt_i' = rt_i + 1
               /\ resolved' = [resolved EXCEPT !["fatal"] = @ + 1]
               /\ UNCHANGED <<reconn_list, reconn_mutex, pc, lfd>>
            \/ \* -1: continue
               /\ ret = 0 - 1
               /\ rt_i' = rt_i + 1
               /\ UNCHANGED <<reconn_list, reconn_mutex, pc, lfd, fds, badclose, resolved>>
            \/ \* connected: vhost_user_add_connection(reconn->fd, reconn->vsocket)
               /\ ret = 0
               /\ lfd' = [lfd EXCEPT !["reconn"] = reconn_list[rt_i]]
               /\ pc' = [pc EXCEPT !["reconn"] = "add_new"]
               /\ UNCHANGED <<reconn_list, reconn_mutex, rt_i, fds, badclose, resolved>>
    /\ UNCHANGED <<ch, cfgv, envv, epv, fdset, busy, rm, devv, lconn, ep_owns, crashed, ub, closedReg, parked, retried>>

\* Lines 402-421 and 427: one entry of the sweep, or its end.
RtIter ==
    /\ pc["reconn"] = "rt_iter"
    /\ IF rt_i > Len(reconn_list)
       THEN /\ reconn_mutex' = "free"
            /\ rt_i' = 1
            /\ pc' = [pc EXCEPT !["reconn"] = "rt_sleep"]
            /\ UNCHANGED <<reconn_list, fds, badclose, lfd, resolved>>
       ELSE \E ret \in vhost_user_connect_nonblock(reconn_list[rt_i]) :
            \/ \* -2: close, remove_fd
               /\ ret = 0 - 2
               /\ CloseFd(reconn_list[rt_i])
               /\ reconn_list' = RemoveAt(reconn_list, rt_i)
               /\ resolved' = [resolved EXCEPT !["fatal"] = @ + 1]
               /\ UNCHANGED <<reconn_mutex, rt_i, pc, lfd>>
            \/ \* -1: continue
               /\ ret = 0 - 1
               /\ rt_i' = rt_i + 1
               /\ UNCHANGED <<reconn_list, reconn_mutex, pc, lfd, fds, badclose, resolved>>
            \/ \* connected: vhost_user_add_connection(reconn->fd, reconn->vsocket)
               /\ ret = 0
               /\ lfd' = [lfd EXCEPT !["reconn"] = reconn_list[rt_i]]
               /\ pc' = [pc EXCEPT !["reconn"] = "add_new"]
               /\ UNCHANGED <<reconn_list, reconn_mutex, rt_i, fds, badclose, resolved>>
    /\ UNCHANGED <<ch, cfgv, envv, epv, fdset, busy, rm, devv, lconn, ep_owns, crashed, ub, closedReg, parked, retried>>

\* The sweep going on without remove_fd.
RtRemove_KeepsEntry ==
    /\ pc["reconn"] = "rt_remove"
    /\ pc' = [pc EXCEPT !["reconn"] = "rt_iter"]
    /\ UNCHANGED <<ch, cfgv, envv, epv, rcv, fdv, devv, lfd, lconn, histv>>

\* Lines 422-424, after vhost_user_add_connection returned: remove_fd.
RtRemove ==
    /\ pc["reconn"] = "rt_remove"
    /\ reconn_list' = RemoveAt(reconn_list, rt_i)
    /\ resolved' = [resolved EXCEPT !["promoted"] = @ + 1]
    /\ pc' = [pc EXCEPT !["reconn"] = "rt_iter"]
    /\ UNCHANGED <<ch, cfgv, envv, epv, reconn_mutex, rt_i, fdv, devv, lfd, lconn,
                   ep_owns, crashed, ub, badclose, closedReg, parked, retried>>

----------------------------------------------------------------------------
\* af_unix_socket_cleanup, the application thread.

\* unlink(vsocket->path)
Unlink(f) == CASE f = "foreign" -> "foreign_deleted"
               [] f = "own" -> "none"
               [] OTHER -> f

\* The slots of the fd set that hold descriptor number n.
SlotsOf(n) == {s \in Slots : fdset[s] # NoFd /\ fdset[s] = n}

\* Lines 553-556: fdset_del of the listening descriptor (which waits for a
\* running callback of that slot), close, unlink.
StopServer ==
    /\ is_server
    /\ \/ /\ SlotsOf(socket_fd) = {}
          /\ UNCHANGED fdset
       \/ \E s \in SlotsOf(socket_fd) :
            /\ s # busy
            /\ fdset' = [fdset EXCEPT ![s] = NoFd]
    /\ CloseFd(socket_fd)
    /\ fs' = Unlink(fs)
    /\ ep_owns' = FALSE
    /\ UNCHANGED <<reconn_list, reconn_mutex, resolved>>

\* Line 509 of vhost_user_remove_reconnect
RemoveReconnectLock ==
    /\ pc["app"] = "rr_lock"
    /\ reconn_mutex = "free"
    /\ reconn_mutex' = "app"
    /\ pc' = [pc EXCEPT !["app"] = "rr_remove"]
    /\ UNCHANGED <<ch, cfgv, envv, epv, reconn_list, rt_i, fdv, devv, lfd, lconn, histv>>

\* A vhost_user_remove_reconnect that finds no match.
StopReconnect_Misses ==
    /\ pc["app"] = "rr_remove"
    /\ reconn_mutex' = "free"
    /\ pc' = [pc EXCEPT !["app"] = "cl_lock"]
    /\ UNCHANGED <<ch, cfgv, envv, epv, reconn_list, rt_i, fdv, devv, lfd, lconn, histv>>

\* vhost_user_remove_reconnect (lines 511-524): the first entry of the
\* endpoint is unlinked and its descriptor closed, and the list's mutex is
\* released.
StopReconnect ==
    /\ pc["app"] = "rr_remove"
    /\ IF reconn_list # <<>>
       THEN /\ reconn_list' = Tail(reconn_list)
            /\ CloseFd(Head(reconn_list))
            /\ resolved' = [resolved EXCEPT !["cancelled"] = @ + 1]
       ELSE UNCHANGED <<reconn_list, fds, badclose, resolved>>
    /\ reconn_mutex' = "free"
    /\ pc' = [pc EXCEPT !["app"] = "cl_lock"]
    /\ UNCHANGED <<ch, cfgv, envv, epv, rt_i, fdset, busy, rm, devv, lfd, lconn,
                   ep_owns, crashed, ub, closedReg, parked, retried>>

\* Lines 553-559: the branch of af_unix_socket_cleanup taken.
Stop ==
    /\ pc["app"] \in {"inited", "started", "start_failed"}
    /\ \/ /\ StopServer
          /\ pc' = [pc EXCEPT !["app"] = "cl_lock"]
       \/ /\ ~is_server /\ reconnect
          /\ pc' = [pc EXCEPT !["app"] = "rr_lock"]
          /\ UNCHANGED <<fs, fdset, fds, badclose, reconn_list, reconn_mutex, resolved, ep_owns>>
       \/ /\ ~is_server /\ ~reconnect
          /\ pc' = [pc EXCEPT !["app"] = "cl_lock"]
          /\ UNCHANGED <<fs, fdset, fds, badclose, reconn_list, reconn_mutex, resolved, ep_owns>>
    /\ UNCHANGED <<ch, cfgv, reachable, epv, rt_i, busy, rm, devv, lfd, lconn,
                   crashed, ub, closedReg, parked, retried>>

\* Line 562
CleanupLock ==
    /\ pc["app"] = "cl_lock"
    /\ LockConn("app", "cl_sweep")

\* A sweep step that forgets TAILQ_REMOVE and free.
SweepDestroy_KeepsRecord(c) ==
    /\ CloseFd(connfd[c])
    /\ DestroyDevice(c)
    /\ UNCHANGED <<conn_list, cst>>

\* Lines 583-586, after fdset_try_del succeeded: close, vhost_destroy_device,
\* TAILQ_REMOVE, free.
SweepDestroy(c) ==
    /\ CloseFd(connfd[c])
    /\ DestroyDevice(c)
    /\ conn_list' = ListRemove(conn_list, c)
    /\ cst' = [cst EXCEPT ![c] = "freed"]

\* A sweep that retries without the unlock of line 575.
CleanupSweep_KeepsLock ==
    /\ pc["app"] = "cl_sweep"
    /\ IF conn_list = <<>>
       THEN /\ conn_mutex' = "destroyed"
            /\ pc' = [pc EXCEPT !["app"] = "stopped"]
            /\ UNCHANGED <<ch, cfgv, envv, socket_fd, conn_list, rcv, fdv, devv, lfd, lconn, histv>>
       ELSE LET c == Head(conn_list) IN
            \/ /\ \E s \in SlotsOf(connfd[c]) : s = busy
               /\ UNCHANGED conn_mutex
               /\ pc' = [pc EXCEPT !["app"] = "cl_lock"]
               /\ ub' = (ub \/ cst[c] = "freed")
               /\ retried' = TRUE
               /\ UNCHANGED <<ch, cfgv, envv, socket_fd, conn_list, rcv, fdv, devv, lfd, lconn,
                              ep_owns, crashed, badclose, closedReg, parked, resolved>>
            \/ /\ \/ /\ SlotsOf(connfd[c]) = {}
                     /\ UNCHANGED fdset
                  \/ \E s \in SlotsOf(connfd[c]) :
                        /\ s # busy
                        /\ fdset' = [fdset EXCEPT ![s] = NoFd]
               /\ SweepDestroy(c)
               /\ ub' = (ub \/ cst[c] = "freed")
               /\ UNCHANGED <<ch, cfgv, envv, socket_fd, conn_mutex, rcv, busy, rm, connfd,
                              nDestroyConn, nextvid, thv, ep_owns, crashed, closedReg, parked, retried, resolved>>
            \/ /\ cst[c] = "freed"
               /\ Crash

\* Lines 563-590: the sweep handles the first record of the list (every
\* record it handled before was removed), or ends on the empty list.
\* fdset_try_del(fd) fails when the slot holding fd is busy, and otherwise
\* empties it; it succeeds when no slot holds fd.  Reading a record that was
\* freed is undefined: its old contents are read, or the process dies.
CleanupSweep ==
    /\ pc["app"] = "cl_sweep"
    /\ IF conn_list = <<>>
       THEN /\ conn_mutex' = "destroyed"
            /\ pc' = [pc EXCEPT !["app"] = "stopped"]
            /\ UNCHANGED <<ch, cfgv, envv, socket_fd, conn_list, rcv, fdv, devv, lfd, lconn, histv>>
       ELSE LET c == Head(conn_list) IN
            \/ /\ \E s \in SlotsOf(connfd[c]) : s = busy
               /\ UnlockConn
               /\ pc' = [pc EXCEPT !["app"] = "cl_lock"]
               /\ ub' = (ub \/ cst[c] = "freed")
               /\ retried' = TRUE
               /\ UNCHANGED <<ch, cfgv, envv, socket_fd, conn_list, rcv, fdv, devv, lfd, lconn,
                              ep_owns, crashed, badclose, closedReg, parked, resolved>>
            \/ /\ \/ /\ SlotsOf(connfd[c]) = {}
                     /\ UNCHANGED fdset
                  \/ \E s \in SlotsOf(connfd[c]) :
                        /\ s # busy
                        /\ fdset' = [fdset EXCEPT ![s] = NoFd]
               /\ SweepDestroy(c)
               /\ ub' = (ub \/ cst[c] = "freed")
               /\ UNCHANGED <<ch, cfgv, envv, socket_fd, conn_mutex, rcv, busy, rm, connfd,
                              nDestroyConn, nextvid, thv, ep_owns, crashed, closedReg, parked, retried, resolved>>
            \/ /\ cst[c] = "freed"
               /\ Crash

----------------------------------------------------------------------------
\* The peer of a client endpoint starts and stops listening.
TargetUp ==
    /\ ~crashed
    /\ ~is_server
    /\ reachable \in {"never", "down"}
    /\ reachable' = "up"
    /\ UNCHANGED <<ch, cfgv, fs, epv, rcv, fdv, devv, thv, histv>>

TargetDown ==
    /\ ~crashed
    /\ ~is_server
    /\ reachable = "up"
    /\ reachable' = "down"
    /\ UNCHANGED <<ch, cfgv, fs, epv, rcv, fdv, devv, thv, histv>>

----------------------------------------------------------------------------
Callers == {"app", "disp", "reconn"}

Next ==
    \/ SocketInit
    \/ StartServer
    \/ StartClient("app")
    \/ Stop
    \/ RemoveReconnectLock
    \/ StopReconnect
    \/ CleanupLock
    \/ CleanupSweep
    \/ Accept
    \/ \E c \in ConnIds : DispatchRead(c)
    \/ RcbHandle
    \/ RcbLock
    \/ RcbRemove
    \/ RcbCreate
    \/ StartClient("disp")
    \/ CbRet
    \/ \E t \in Callers : AddNew(t)
    \/ \E t \in Callers : AddReg(t)
    \/ \E t \in Callers : AddLock(t)
    \/ \E t \in Callers : AddInsert(t)
    \/ \E t \in Callers : ScLock(t)
    \/ \E t \in Callers : ScInsert(t)
    \/ RtLock
    \/ RtIter
    \/ RtRemove
    \/ TargetUp
    \/ TargetDown

Spec == Init /\ [][Next]_vars

\* Scheduling.  Every thread that is inside a function of this file keeps
\* running, and a thread waiting for a mutex gets it when it is released
\* again and again: so every read callback in flight returns, the reconnect
\* thread finishes its sweep, and af_unix_socket_cleanup keeps retrying.
\* What the environment decides is not fair: descriptors becoming readable,
\* peers connecting, the target going up and down, the application calling
\* init, start and stop.
\* The steps of thread t that wait for nothing, and its mutex acquisitions.
Running(t) ==
    \/ AddNew(t) \/ AddReg(t) \/ AddInsert(t) \/ ScInsert(t)
    \/ /\ t = "disp"
       /\ (RcbHandle \/ RcbRemove \/ RcbCreate \/ StartClient("disp") \/ CbRet)
    \/ /\ t = "reconn"
       /\ (RtIter \/ RtRemove)
    \/ /\ t = "app"
       /\ (StopReconnect \/ CleanupSweep)
Locking(t) ==
    \/ AddLock(t) \/ ScLock(t)
    \/ t = "disp" /\ RcbLock
    \/ t = "app" /\ (RemoveReconnectLock \/ CleanupLock)

Fairness == \A t \in Callers : WF_vars(Running(t)) /\ SF_vars(Locking(t))

FairSpec == Spec /\ Fairness

----------------------------------------------------------------------------
\* Concurrent callers of vhost_user_add_connection on a started server
\* endpoint: each worker obtains a fresh descriptor and calls the function.

InitConc ==
    /\ is_server = TRUE
    /\ reconnect = FALSE
    /\ fs = "own"
    /\ reachable = "never"
    /\ socket_fd = 0
    /\ conn_list = <<>>
    /\ conn_mutex = "free"
    /\ reconn_list = <<>>
    /\ reconn_mutex = "free"
    /\ rt_i = 1
    /\ fds = {0}
    /\ fdset = [s \in Slots |-> IF s = ListenSlot THEN 0 ELSE NoFd]
    /\ busy = NoSlot
    /\ rm = FALSE
    /\ cst = [c \in ConnIds |-> "none"]
    /\ connfd = [c \in ConnIds |-> NoFd]
    /\ dev = [c \in ConnIds |-> "none"]
    /\ nDestroy = [c \in ConnIds |-> 0]
    /\ nDestroyConn = [c \in ConnIds |-> 0]
    /\ nextvid = 1
    /\ lfd = [t \in Threads |-> NoFd]
    /\ lconn = [t \in Threads |-> 0]
    /\ crashed = FALSE
    /\ ub = FALSE
    /\ badclose = FALSE
    /\ closedReg = [c \in ConnIds |-> "no"]
    /\ parked = 0
    /\ retried = FALSE
    /\ ch = ChIdle
    /\ resolved = [k \in {"promoted", "fatal", "cancelled", "made"} |-> 0]
    /\ ep_owns = TRUE
    /\ pc = [t \in Threads |-> CASE t = "app" -> "started"
                                 [] t = "disp" -> "poll"
                                 [] t = "reconn" -> "rt_sleep"
                                 [] OTHER -> "idle"]

\* A worker gets a connected descriptor (accept) and calls
\* vhost_user_add_connection with it.
ConcAccept(w) ==
    /\ pc[w] = "idle"
    /\ HasFree(fds)
    /\ fds' = fds \cup {LowestFree(fds)}
    /\ lfd' = [lfd EXCEPT ![w] = LowestFree(fds)]
    /\ pc' = [pc EXCEPT ![w] = "add_new"]
    /\ UNCHANGED <<ch, cfgv, envv, epv, rcv, fdset, busy, rm, devv, lconn, histv>>

NextConc ==
    \/ \E w \in Workers : ConcAccept(w)
    \/ \E w \in Workers : AddNew(w)
    \/ \E w \in Workers : AddReg(w)
    \/ \E w \in Workers : AddLock(w)
    \/ \E w \in Workers : AddInsert(w)

SpecConc == InitConc /\ [][NextConc]_vars

----------------------------------------------------------------------------
\* One message over a connected socket: a sender calls send_fd_message,
\* then the receiver calls read_fd_message with an fd array of max_fds
\* slots that holds whatever the caller left in it.

InitMsg ==
    /\ InitCommon
    /\ is_server = FALSE
    /\ reconnect = FALSE
    /\ fs = "none"
    /\ reachable = "never"
    /\ pc = [t \in Threads |-> "off"]
    /\ \E k \in {"stream", "dgram"}, a \in Aligns,
          m \in 0 .. MaxFdsArg, b \in 1 .. MaxBytes :
          ch = [ChIdle EXCEPT !.phase = "idle", !.kind = k, !.align = a,
                              !.max_fds = m, !.buflen = b,
                              !.arr0 = [i \in 1 .. m |-> Stale],
                              !.arr = [i \in 1 .. m |-> Stale]]

\* The peer sends len bytes with n descriptors attached.
SendFdMessage ==
    /\ ch.phase = "idle"
    /\ \E len \in 1 .. MaxBytes, n \in 0 .. MaxSent, ok \in BOOLEAN :
          LET s == send_fd_message(len, n, ok)
          IN ch' = [ch EXCEPT !.phase = "sent", !.sret = s.sret,
                              !.qlen = s.qlen, !.qfds = s.qfds]
    /\ UNCHANGED <<cfgv, envv, epv, rcv, fdv, devv, thv, histv>>

\* The receiver calls read_fd_message; the control buffer is
\* CMSG_SPACE(max_fds * sizeof(int)) bytes (line 51).  A memcpy past the
\* end of the caller's array is undefined: the call may return as if
\* nothing happened, or the process may die.
ReadFdMessage ==
    /\ ch.phase = "sent"
    /\ \E o \in recvmsg(ch, CMSG_SPACE(ch.max_fds * SizeofInt, ch.align)) :
          LET r == read_fd_message(ch, o)
          IN \/ ch' = r
             \/ r.overrun /\ ch' = [r EXCEPT !.phase = "dead"]
    /\ UNCHANGED <<cfgv, envv, epv, rcv, fdv, devv, thv, histv>>

NextMsg ==
    \/ SendFdMessage
    \/ ReadFdMessage

SpecMsg == InitMsg /\ [][NextMsg]_vars

----------------------------------------------------------------------------
\* Claims

\* The descriptors a thread carries between two owners.
\* Thread t carries a descriptor that it took from its owner and has not yet
\* stored in a connection record or a reconnect entry.
InHandOver(t) == pc[t] \in {"add_new", "add_reg", "sc_lock", "sc_ins"}

\* C1: for every connection, vhost_destroy_device is called exactly once for
\* its device id and destroy_connection at most once: never more than once,
\* and once the record is gone the device was destroyed.
C1_DestroyExactlyOnce ==
    \A c \in ConnIds :
        /\ nDestroy[c] <= 1
        /\ nDestroyConn[c] <= 1
        /\ (cst[c] = "freed" => nDestroy[c] = 1)

\* C3: after af_unix_socket_cleanup returned, the endpoint has no
\* connection in its list, no pending reconnect entry and no open
\* descriptor, and none appears later.
C3_NothingLeftAfterStop ==
    pc["app"] = "stopped" =>
        /\ conn_list = <<>>
        /\ reconn_list = <<>>
        /\ fds = {}

\* The owners of descriptor number n: the endpoint, the pending entries, the
\* live connection records, the threads handing one over.  An entry the
\* reconnect thread is handing over, and a connection whose read callback
\* is tearing it down, are not counted.
EntryOwners(n) ==
    {i \in 1 .. Len(reconn_list) :
        /\ reconn_list[i] = n
        /\ ~(pc["reconn"] \in {"add_new", "add_reg", "add_lock", "add_ins", "rt_remove"} /\ rt_i = i)}
ConnOwners(n) ==
    {c \in ConnIds :
        /\ cst[c] = "live" /\ connfd[c] = n
        /\ ~(busy = c /\ rm)}
TransitOwners(n) == {t \in Threads : InHandOver(t) /\ lfd[t] = n}
NumOwners(n) ==
    (IF ep_owns /\ socket_fd = n THEN 1 ELSE 0)
    + Cardinality(EntryOwners(n)) + Cardinality(ConnOwners(n)) + Cardinality(TransitOwners(n))

\* C4: every open descriptor has exactly one owner (the endpoint, a reconnect
\* entry, a connection, or the thread handing it over), and no owner holds a
\* descriptor that is not open.
C4_ExactlyOneOwner ==
    \A n \in Fds : NumOwners(n) = (IF n \in fds THEN 1 ELSE 0)

\* C8: the socket path that existed before the endpoint bound it is never
\* deleted.
C8_ForeignPathKept == fs # "foreign_deleted"

\* C5: once all concurrent vhost_user_add_connection calls on the server
\* endpoint have returned (and nothing was torn down), the connection list
\* holds exactly the records of the successful calls, each once, so N
\* successes give N members with N distinct device ids.
C5_ConcurrentAddsAllListed ==
    (\A w \in Workers : pc[w] = "idle") =>
        /\ Len(conn_list) = Cardinality({c \in ConnIds : cst[c] = "live"})
        /\ \A c \in ConnIds : cst[c] = "live" => InList(conn_list, c)
        /\ \A i, j \in 1 .. Len(conn_list) : i # j => conn_list[i] # conn_list[j]

\* Two creations overlapped (the call that got device 1 inserted its record
\* after the call that got device 2), both succeeded and both returned.
C5_Witness ==
    /\ \A w \in Workers : pc[w] = "idle"
    /\ conn_list = <<2, 1>>
    /\ cst[1] = "live" /\ cst[2] = "live"

\* C7: a vhost_user_add_connection that fails after the allocation of the
\* record rolls everything back: the descriptor is closed, the device (if it
\* was created) is destroyed, destroy_connection is called exactly when
\* new_connection had succeeded, the record is freed, no slot of the fd set
\* holds the record and the connection list is unchanged.
C7_FailedAddRollsBack ==
    [][\A t \in Callers \cup Workers :
        (pc[t] \in {"add_new", "add_reg"} /\ pc'[t] = AddRet(t)) =>
            /\ lfd[t] \notin fds'
            /\ conn_list' = conn_list
            /\ fdset' = fdset
            /\ \A c \in ConnIds : cst'[c] = "live" => (cst[c] = "live" /\ c # lconn[t])
            /\ \A c \in ConnIds : dev'[c] = "alive" => (dev[c] = "alive" /\ c # lconn[t])
            /\ (pc[t] = "add_reg" =>
                  /\ cst'[lconn[t]] = "freed"
                  /\ fdset'[lconn[t]] = NoFd
                  /\ nDestroy'[lconn[t]] = 1
                  /\ nDestroyConn'[lconn[t]] = 1)
            /\ (pc[t] = "add_new" => nDestroyConn' = nDestroyConn)
      ]_vars

\* A creation failed at fdset_add: its record is freed, its device destroyed
\* once, destroy_connection called once, the descriptor never registered.
C7_Witness ==
    \E c \in ConnIds :
        /\ cst[c] = "freed" /\ dev[c] = "destroyed"
        /\ nDestroy[c] = 1 /\ nDestroyConn[c] = 1
        /\ closedReg[c] = "no" /\ fdset[c] = NoFd
        /\ connfd[c] \notin fds
        /\ ~ub

\* C9 as stated: no thread holds reconn_list.mutex and conn_mutex together.
C9_NeverBothLocks ==
    \A t \in Threads : ~(reconn_mutex = t /\ conn_mutex = t)

\* C9, amended: the two mutexes are held together only by the reconnect
\* thread, which takes conn_mutex inside vhost_user_add_connection (lines
\* 205-207) while it holds reconn_list.mutex for its sweep; every other
\* thread holds at most one of them.
C9_BothLocksOnlyInReconnectInsert ==
    \A t \in Threads :
        (reconn_mutex = t /\ conn_mutex = t) =>
            (t = "reconn" /\ (crashed \/ pc[t] = "add_ins"))

\* The reconnect thread holds both mutexes.
C9_Witness == reconn_mutex = "reconn" /\ conn_mutex = "reconn" /\ pc["reconn"] = "add_ins"

\* C10 as stated: a Connection's descriptor is never closed while the
\* dispatcher still has it registered (deregistration precedes close).
C10_DeregisteredBeforeClose ==
    \A c \in ConnIds : closedReg[c] = "no"

\* C6 as stated: every Reconnect Entry of which the reconnect thread disposed
\* (the target answered) gave exactly one Connection, never zero.
C6_EveryEntryGivesOneConnection ==
    /\ resolved["fatal"] = 0
    /\ (pc["reconn"] \in {"rt_sleep", "rt_iter"} =>
            resolved["made"] = resolved["promoted"])

\* C6, amended: on a reconnect-enabled client whose target never was
\* reachable no Connection and no device exists; an entry leaves the list
\* only once (every entry ever queued is pending or was disposed of once);
\* and an entry gives at most one Connection: one when the connect and the
\* creation succeed, none when connect fails fatally or the creation fails,
\* and the entry is dropped in either case.
C6_AtMostOneConnectionPerEntry ==
    /\ (~is_server /\ reconnect /\ reachable = "never") =>
            (conn_list = <<>> /\ nextvid = 1)
    /\ parked = Len(reconn_list) + resolved["promoted"]
                    + resolved["fatal"] + resolved["cancelled"]
    /\ crashed \/ resolved["made"] <=
            resolved["promoted"] + (IF pc["reconn"] = "rt_remove" THEN 1 ELSE 0)

\* The target came up, the reconnect thread promoted the pending entry and
\* the Connection made of it is the endpoint's only one.
C6_Witness ==
    /\ ~is_server /\ reconnect /\ reachable # "never"
    /\ parked = 1 /\ resolved["promoted"] = 1 /\ resolved["made"] = 1
    /\ reconn_list = <<>>
    /\ Len(conn_list) = 1
    /\ pc["reconn"] = "rt_sleep"

\* af_unix_socket_cleanup is in its loop (lines 561-588).
Stopping == pc["app"] \in {"rr_lock", "rr_remove", "cl_lock", "cl_sweep"}

\* C2 as stated: when every read callback in flight eventually returns,
\* af_unix_socket_cleanup leaves its retry loop and returns.  (A process
\* that died of an undefined access is not held against the statement.)
C2_StopTerminates == Stopping ~> (pc["app"] = "stopped" \/ crashed)

\* C2, amended: af_unix_socket_cleanup returns (or the process has died of
\* an undefined access) provided that from some moment on no read callback
\* is in flight.  That every callback returns does not suffice: the
\* dispatcher can be inside the next callback at each fdset_try_del.
C2_StopTerminatesOnceCallbacksCease ==
    <>[](busy = NoSlot) => (Stopping ~> (pc["app"] = "stopped" \/ crashed))

\* stop returned after it had to retry because a read callback was in flight.
C2_Witness == pc["app"] = "stopped" /\ retried /\ ~ub

\* vhost_user_read_cb is about to return after its handler failed: the
\* record it was called for is the one of the busy slot.
AfterReadFailure == pc["disp"] = "cb_ret" /\ rm /\ busy \in ConnIds

\* The endpoint has a live Connection, or a pending Reconnect Entry whose
\* descriptor is open.
HasConnOrEntry ==
    \/ \E c \in ConnIds : cst[c] = "live"
    \/ \E i \in 1 .. Len(reconn_list) : reconn_list[i] \in fds

\* C11: when the handler failed, the connection is torn down completely
\* (device destroyed, record freed and out of the list) by the time
\* vhost_user_read_cb returns, and on a reconnect-enabled client that is not
\* being stopped the endpoint then has a live Connection or a pending
\* Reconnect Entry again.
C11_FailureTearsDownAndRestarts ==
    AfterReadFailure =>
        /\ dev[busy] = "destroyed" /\ cst[busy] = "freed"
        /\ ~InList(conn_list, busy)
        /\ (reconnect /\ ~is_server /\ pc["app"] = "started") => HasConnOrEntry

\* Thread t is at the call of vhost_user_start_client.
AtStartClient(t) ==
    \/ t = "app" /\ pc[t] = "inited" /\ ~is_server
    \/ t = "disp" /\ pc[t] = "sc_connect"

\* connect() on the endpoint's descriptor succeeds.
ConnectSucceeds == socket_fd \in fds /\ reachable = "up"

\* The outcomes of vhost_user_start_client for thread t, as steps.
ScToAdd(t) ==
    /\ pc'[t] = "add_new" /\ lfd'[t] = socket_fd
    /\ fds' = fds /\ reconn_list' = reconn_list /\ conn_list' = conn_list
ScToPark(t) ==
    /\ pc'[t] = "sc_lock" /\ lfd'[t] = socket_fd
    /\ fds' = fds /\ reconn_list' = reconn_list /\ conn_list' = conn_list
ScFails(t) ==
    /\ pc'[t] = (IF t = "app" THEN "start_failed" ELSE "cb_ret")
    /\ socket_fd \notin fds'
    /\ reconn_list' = reconn_list /\ conn_list' = conn_list /\ nextvid' = nextvid
ScParked(t) ==
    (pc[t] = "sc_ins" /\ pc'[t] # "sc_ins" /\ ~crashed') =>
        /\ reconn_list' = Append(reconn_list, lfd[t])
        /\ pc'[t] = (IF t = "app" THEN "started" ELSE "cb_ret")
        /\ conn_list' = conn_list /\ nextvid' = nextvid /\ fds' = fds
StartClientStep(t) == AtStartClient(t) /\ pc'[t] \notin {pc[t], "rr_lock", "cl_lock", "dead"}

\* C12 as stated: vhost_user_start_client has exactly three outcomes: the
\* descriptor goes to vhost_user_add_connection when connect succeeded; one
\* Reconnect Entry is queued when connect failed and reconnect is set; the
\* descriptor is closed and -1 returned when the flags cannot be changed or
\* when connect failed and reconnect is not set.
C12_ThreeOutcomes ==
    [][\A t \in {"app", "disp"} :
        /\ StartClientStep(t) =>
            \/ ConnectSucceeds /\ ScToAdd(t)
            \/ ~ConnectSucceeds /\ reconnect /\ ScToPark(t)
            \/ (ConnectSucceeds \/ ~reconnect) /\ ScFails(t)
        /\ ScParked(t)
      ]_vars

\* C12, amended: there is a fourth outcome.  When connect failed, reconnect
\* is set and the allocation of the Reconnect Entry fails, the descriptor is
\* closed, nothing is queued and -1 is returned, as in the third outcome.
C12_FourOutcomes ==
    [][\A t \in {"app", "disp"} :
        /\ StartClientStep(t) =>
            \/ ConnectSucceeds /\ ScToAdd(t)
            \/ ~ConnectSucceeds /\ reconnect /\ ScToPark(t)
            \/ ScFails(t)
        /\ ScParked(t)
      ]_vars

\* start failed on a reconnect-enabled client whose target never listened:
\* the entry could not be allocated.
C12_Witness ==
    /\ ~is_server /\ reconnect /\ reachable = "never"
    /\ pc["app"] = "start_failed" /\ reconn_list = <<>> /\ fds = {}

----------------------------------------------------------------------------
\* read_fd_message: the caller's fd array after the call.

Returned == ch.phase = "done"
Filled == {i \in 1 .. ch.max_fds : ch.arr[i] >= RecvFd(1)}

\* C13 (as stated): after every call of read_fd_message, whatever its
\* outcome, every slot of the caller's array that was not filled with a
\* received descriptor holds -1, and the reported count equals the number
\* of filled slots.
C13_UnfilledSlotsAlwaysAbsent ==
    Returned =>
        /\ \A i \in (1 .. ch.max_fds) \ Filled : ch.arr[i] = Absent
        /\ ch.fd_num = Cardinality(Filled)

\* C13 (amended): when read_fd_message returns a positive byte count, slot
\* i holds the i-th received descriptor for i <= fd_num and -1 for every
\* other slot, and fd_num is the number of filled slots whenever it does
\* not exceed max_fds; when it returns <= 0 (recvmsg failed, the peer
\* closed, or the message was truncated) fd_num is 0 and the array is left
\* exactly as the caller passed it.
C13_UnfilledSlotsAbsentOnSuccess ==
    Returned =>
        IF ch.ret > 0
        THEN /\ \A i \in 1 .. ch.max_fds :
                   ch.arr[i] = IF i <= ch.fd_num THEN RecvFd(i) ELSE Absent
             /\ ch.fd_num <= ch.max_fds => ch.fd_num = Cardinality(Filled)
        ELSE ch.fd_num = 0 /\ ch.arr = ch.arr0

C13_Witness ==
    /\ Returned /\ ch.ret > 0
    /\ ch.max_fds = 3 /\ ch.fd_num = 1
    /\ ch.arr = <<RecvFd(1), Absent, Absent>>

\* C14: when the sender attached more descriptors than max_fds (or a
\* datagram longer than the buffer), read_fd_message fails; and on every
\* successful call at most max_fds descriptors are reported and copied
\* into the caller's array, for every max_fds.
C14_NeverMoreThanMaxFds ==
    Returned =>
        /\ (ch.qfds > ch.max_fds \/ (ch.kind = "dgram" /\ ch.qlen > ch.buflen))
               => ch.ret < 0
        /\ ch.ret > 0 => (ch.fd_num <= ch.max_fds /\ ~ch.overrun)

----------------------------------------------------------------------------
\* Locking discipline.

\* A step taken by the thread that holds mutex m: a thread holds it and
\* no other thread moves.
UnderLock(m) == m \in Threads /\ \A u \in Threads \ {m} : pc'[u] = pc[u]

\* af_unix_socket_cleanup calls fdset_del (line 554).
CallsFdsetDel == pc["app"] \in {"inited", "started", "start_failed"} /\ is_server
                     /\ pc'["app"] = "cl_lock"

\* fdset_try_del failed in the sweep of af_unix_socket_cleanup (line 574).
TryDelFailed == pc["app"] = "cl_sweep" /\ pc'["app"] = "cl_lock"

\* C15: the connection list changes only in steps of the holder of
\* conn_mutex and the reconnect list only in steps of the holder of
\* reconn_list.mutex; the thread that calls the blocking fdset_del holds
\* neither mutex; fdset_try_del is called with conn_mutex held and, when it
\* fails, the mutex is released before the sweep is retried.
C15_ListsUnderTheirLocks ==
    [][/\ conn_list' # conn_list => UnderLock(conn_mutex)
       /\ reconn_list' # reconn_list => UnderLock(reconn_mutex)
       /\ CallsFdsetDel => (conn_mutex # "app" /\ reconn_mutex # "app")
       /\ TryDelFailed => (conn_mutex = "app" /\ conn_mutex' = "free")
      ]_vars

----------------------------------------------------------------------------
\* The sweep of vhost_user_client_reconnect.

\* The steps of a sweep, seen from the entry at the cursor.
InSweep == pc["reconn"] \in {"rt_iter", "rt_remove"} /\ ~crashed'
SweepFatal == pc["reconn"] = "rt_iter" /\ resolved'["fatal"] # resolved["fatal"]
SweepSkip == pc["reconn"] = "rt_iter" /\ rt_i' = rt_i + 1
SweepHandOver == pc["reconn"] = "rt_iter" /\ pc'["reconn"] = "add_new"
SweepAfterAdd == pc["reconn"] = "rt_remove" /\ pc'["reconn"] = "rt_iter"
SweepEnd == pc["reconn"] = "rt_iter" /\ pc'["reconn"] = "rt_sleep"
\* The entries the sweep has still to handle.
ToHandle(list, i) == Len(list) + 1 - i

\* What the fatal and not-yet-connected branches and the end of the sweep
\* do, and that all of it happens under the lock.
SweepCommon ==
    /\ InSweep => reconn_mutex = "reconn"
    /\ SweepFatal =>
          /\ reconn_list' = RemoveAt(reconn_list, rt_i)
          /\ reconn_list[rt_i] \notin fds'
          /\ ToHandle(reconn_list', rt_i') = ToHandle(reconn_list, rt_i) - 1
    /\ SweepSkip =>
          /\ reconn_list' = reconn_list
          /\ fds' = fds
          /\ ToHandle(reconn_list', rt_i') = ToHandle(reconn_list, rt_i) - 1
    /\ SweepEnd =>
          /\ ToHandle(reconn_list, rt_i) = 0
          /\ reconn_list' = reconn_list
          /\ reconn_mutex' = "free"

\* C16 as stated: every entry is handled once under the lock; a fatal
\* error closes the descriptor and drops the entry; a not-yet-connected
\* entry stays; a connected entry is first removed from the list and then
\* its descriptor is handed to vhost_user_add_connection; after the sweep
\* the list holds exactly the entries that were not yet connected.
C16_RemovedThenHandedOver ==
    [][/\ SweepCommon
       /\ SweepHandOver =>
             /\ lfd'["reconn"] = reconn_list[rt_i]
             /\ reconn_list' = RemoveAt(reconn_list, rt_i)
      ]_vars

\* C16, amended: as stated, except that a connected entry is still in the
\* list while vhost_user_add_connection runs with its descriptor and is
\* removed right after that call has returned, whatever it returned.
C16_HandedOverThenRemoved ==
    [][/\ SweepCommon
       /\ SweepHandOver =>
             /\ lfd'["reconn"] = reconn_list[rt_i]
             /\ reconn_list' = reconn_list
             /\ ToHandle(reconn_list', rt_i') = ToHandle(reconn_list, rt_i)
       /\ SweepAfterAdd =>
             /\ reconn_list' = RemoveAt(reconn_list, rt_i)
             /\ ToHandle(reconn_list', rt_i') = ToHandle(reconn_list, rt_i) - 1
      ]_vars

C16_Witness ==
    /\ pc["reconn"] = "rt_sleep" /\ reconn_mutex = "free"
    /\ resolved["promoted"] >= 1 /\ resolved["fatal"] >= 1
    /\ ~ub

----------------------------------------------------------------------------
\* The entries of one endpoint in the reconnect list.

\* vhost_user_remove_reconnect returns.
RemoveReconnectReturns == pc["app"] = "rr_remove" /\ pc'["app"] = "cl_lock"

\* C17: the reconnect list never holds more than one entry of the
\* endpoint, and vhost_user_remove_reconnect, which unlinks the first
\* match and closes its descriptor, or changes nothing when there is no
\* match, leaves no entry of the endpoint in the list.
C17_AtMostOneEntryPerEndpoint ==
    /\ [](Len(reconn_list) <= 1)
    /\ [][RemoveReconnectReturns =>
            /\ reconn_list' = <<>>
            /\ IF reconn_list # <<>>
               THEN /\ Head(reconn_list) \notin fds'
                    /\ resolved'["cancelled"] = resolved["cancelled"] + 1
               ELSE fds' = fds /\ resolved' = resolved
         ]_vars

\* vhost_user_remove_reconnect has removed the entry that was queued in
\* the second round of connect, handler failure and restart.
C17_Witness ==
    /\ pc["app"] = "cl_lock"
    /\ resolved["cancelled"] = 1 /\ resolved["promoted"] >= 1 /\ parked >= 2
    /\ reconn_list = <<>>
    /\ ~ub

----------------------------------------------------------------------------
\* C18: no close() in any run of init, start, stop and the callbacks
\* targets a descriptor that is not open at that moment (closed before, or
\* never opened), in particular not in stop after a failed server start and
\* not in a restart whose create_unix_socket failed.
C18_NoCloseOfClosedDescriptor == ~badclose

----------------------------------------------------------------------------
\* The members of the connection list.

\* Record c is allocated, its descriptor open and registered, its device
\* not destroyed.
LiveRecord(c) ==
    /\ cst[c] = "live" /\ dev[c] = "alive"
    /\ connfd[c] \in fds /\ fdset[c] = connfd[c]
\* vhost_user_add_connection holds record c between its creation and its
\* insertion (lines 189-206).
BeingAdded(c) ==
    \E t \in Threads : pc[t] \in {"add_reg", "add_lock", "add_ins"} /\ lconn[t] = c
\* vhost_user_read_cb is between the close of record c's descriptor and the
\* removal of the record (lines 246-258).
BeingTornDown(c) == pc["disp"] \in {"rcb_lock", "rcb_remove"} /\ lconn["disp"] = c
ListIsLiveRecords ==
    \A c \in ConnIds :
        /\ InList(conn_list, c) => (LiveRecord(c) \/ BeingTornDown(c))
        /\ (cst[c] = "live" /\ ~InList(conn_list, c)) => BeingAdded(c)
\* vhost_user_read_cb executes TAILQ_REMOVE (line 258).
ReadCbRemoves == pc["disp"] = "rcb_remove" /\ pc'["disp"] # "rcb_remove"

\* C19: the connection list holds exactly the live records (a record
\* being inserted by vhost_user_add_connection or being torn down by
\* vhost_user_read_cb excepted while that function runs), and
\* vhost_user_read_cb unlinks a record only while it is a member.
C19_ListHoldsExactlyLiveRecords ==
    [][/\ ListIsLiveRecords'
       /\ ReadCbRemoves => InList(conn_list, lconn["disp"])
      ]_vars

----------------------------------------------------------------------------
\* Who waits for whom.

\* Thread t is in pthread_mutex_lock(&af_vsocket->conn_mutex) (lines 205,
\* 257, 562) and u holds the mutex.
WaitsConn(t, u) ==
    /\ \/ pc[t] = "add_lock"
       \/ t = "disp" /\ pc[t] = "rcb_lock"
       \/ t = "app" /\ pc[t] = "cl_lock"
    /\ conn_mutex = u
\* Thread t is in pthread_mutex_lock(&reconn_list.mutex) (lines 496, 509)
\* and u holds the mutex.
WaitsReconn(t, u) ==
    /\ \/ pc[t] = "sc_lock"
       \/ t = "app" /\ pc[t] = "rr_lock"
    /\ reconn_mutex = u
\* The application thread in fdset_del (line 554) waits for the dispatcher
\* while the callback of the listening descriptor runs.
WaitsFdsetDel(t, u) ==
    /\ t = "app" /\ u = "disp"
    /\ is_server /\ pc[t] \in {"inited", "started", "start_failed"}
    /\ busy = ListenSlot
WaitsFor(t, u) == WaitsConn(t, u) \/ WaitsReconn(t, u) \/ WaitsFdsetDel(t, u)

\* A set of threads each of which waits for a thread of the set.
Deadlocked(S) == S # {} /\ \A t \in S : \E u \in S : WaitsFor(t, u)

\* Thread t takes reconn_list.mutex, or starts to wait for it.
WantsReconn(t) ==
    \/ reconn_mutex' = t /\ reconn_mutex # t
    \/ pc'[t] \in {"sc_lock", "rr_lock"}

\* C20: no set of threads waits in a circle through conn_mutex,
\* reconn_list.mutex and fdset_del; and no thread takes, or waits for,
\* reconn_list.mutex while it holds conn_mutex, so that the two mutexes are
\* nested only in the order reconn_list.mutex, conn_mutex.
C20_NoDeadlock ==
    [][/\ \A S \in SUBSET Threads : ~Deadlocked(S)'
       /\ \A t \in Threads : WantsReconn(t) => (conn_mutex # t /\ conn_mutex' # t)
      ]_vars

\* The reconnect thread holds both mutexes, nested, while the application
\* thread waits for the reconnect list's mutex in af_unix_socket_cleanup.
C20_Witness ==
    /\ reconn_mutex = "reconn" /\ conn_mutex = "reconn"
    /\ pc["app"] = "rr_lock"
    /\ ~ub

====
